---- MODULE Spec2Model ----
(***************************************************************************)
(* Syncme::ThreadPool::Pool (lib/source/ThreadPool/Pool.cpp).              *)
(*                                                                         *)
(* Threads: NumCallers caller threads (Run), one thread that calls Stop,   *)
(* one thread that calls StopUnused, and one thread per worker (CB_OnFree  *)
(* and CB_OnTimer run on the worker's own thread).  Every LOCK_GUARD       *)
(* section is two steps: the acquisition of Lock, and the body together    *)
(* with the release; unlocked reads and atomic counter updates are steps   *)
(* of their own.                                                           *)
(*                                                                         *)
(* Worker, the events and the waitable timer are declared in headers that  *)
(* Pool.cpp includes; their behaviour is taken from the specification.     *)
(* LockedInRun (elapsed wall time) and Owner (debug aid) are not modelled. *)
(***************************************************************************)
EXTENDS Integers, Sequences, FiniteSets, TLC

\* ---- bounds ----
NumCallers == 2
NumWorkers == 2
MaxRuns == 3
MaxThreadsBound == 2
MaxUnusedBound == 1
CounterMod == 4
TickMod == 2

\* ---- identities ----
NULL == 0
Workers == 1..NumWorkers
Callers == 101..(100 + NumCallers)
STOPPER == 200
SHRINKER == 201

VARIABLES
  All, Unused,              \* WorkerList All, Unused
  Stopping,                 \* bool Stopping
  StopEvent, FreeEvent,     \* notification event, synchronization (auto-reset) event
  Timer,                    \* the shared waitable timer: "off", "set", "signaled"
  Lock,                     \* std::mutex Lock: NULL or the thread that holds it
  MaxThreads, MaxUnusedThreads, Mode,
  wpc, expire, stops,       \* per worker: thread position, expiry deadline, Stop() calls
  pc, t, result,            \* per caller: position in Run, local t, last return value
  runs,                     \* Run calls started so far
  spc, si,                  \* the Stop thread: position, index of the range-for over All
  upc,                      \* the StopUnused thread: position
  Errors, ThreadsTotal, ThreadsUnused, ThreadsStopped, OnTimerCalls,
  fault                     \* the process has trapped

poolVars == <<All, Unused, Stopping, StopEvent, FreeEvent, Timer, Lock>>
confVars == <<MaxThreads, MaxUnusedThreads, Mode>>
workerVars == <<wpc, expire, stops>>
callerVars == <<pc, t, result, runs>>
stopVars == <<spc, si, upc>>
counterVars == <<Errors, ThreadsTotal, ThreadsUnused, ThreadsStopped, OnTimerCalls>>
vars == <<poolVars, confVars, workerVars, callerVars, stopVars, counterVars, fault>>

\* ---- helpers ----
Range(s) == {s[i] : i \in 1..Len(s)}

RemoveAt(s, i) == SubSeq(s, 1, i - 1) \o SubSeq(s, i + 1, Len(s))

IndexOf(s, e) ==
  IF \E i \in 1..Len(s) : s[i] = e
  THEN CHOOSE i \in 1..Len(s) : s[i] = e /\ \A j \in 1..(i - 1) : s[j] # e
  ELSE 0

\* std::atomic<uint64_t>::operator++ (the width is reduced to keep the model finite)
Inc(x) == (x + 1) % CounterMod
IncTick(x) == (x + 1) % TickMod

\* Worker::Stop as the pool sees it: the call is counted; a worker thread
\* waiting in its loop exits, one inside a task or a callback finishes that first.
StopWorkers(f, S) == [w \in Workers |-> IF w \in S /\ f[w] = "wait" THEN "exit" ELSE f[w]]

CountStops(f, stoppedSeq) ==
  [w \in Workers |-> f[w] + Cardinality({i \in 1..Len(stoppedSeq) : stoppedSeq[i] = w})]

\* ---- Locked_StopExpired ----
\* One pass of the inner for loop from position i: the position of the first
\* expired worker that is not the caller, 0 when the pass reaches Unused.end().
RECURSIVE ScanUnused(_, _, _, _)
ScanUnused(U, ex, caller, i) ==
  IF i > Len(U) THEN 0
  ELSE IF ex[U[i]] # "expired" THEN ScanUnused(U, ex, caller, i + 1)
  ELSE IF caller # NULL /\ U[i] = caller THEN ScanUnused(U, ex, caller, i + 1)
  ELSE i

\* a sweep that stops after the first erasure instead of scanning again
SweepLoop_OnePass(U, A, ex, caller) ==
  LET i == ScanUnused(U, ex, caller, 1) IN
  IF i = 0 THEN [U |-> U, A |-> A, stopped |-> <<>>]
  ELSE LET e == U[i]
           ita == IndexOf(A, e)
       IN [U |-> RemoveAt(U, i), A |-> IF ita = 0 THEN A ELSE RemoveAt(A, ita),
           stopped |-> <<e>>]

\* The outer loop: stop and erase the worker a pass found, then scan again.
RECURSIVE SweepLoop(_, _, _, _)
SweepLoop(U, A, ex, caller) ==
  LET i == ScanUnused(U, ex, caller, 1) IN
  IF i = 0 THEN [U |-> U, A |-> A, stopped |-> <<>>]
  ELSE LET e == U[i]
           ita == IndexOf(A, e)
           r == SweepLoop(RemoveAt(U, i), IF ita = 0 THEN A ELSE RemoveAt(A, ita), ex, caller)
       IN [U |-> r.U, A |-> r.A, stopped |-> <<e>> \o r.stopped]

\* a sweep that never asks for the timer again
SetTimerFlag_Never(U, ex, caller) == FALSE

\* setTimer: some pass met the caller while it was expired (the last pass
\* visits every element of Unused, and the caller is never erased).
SetTimerFlag(U, ex, caller) ==
  caller # NULL /\ \E i \in 1..Len(U) : U[i] = caller /\ ex[U[i]] = "expired"

\* CancelWaitableTimer: a pending timer is stopped, a signaled one stays signaled.
CancelWaitableTimer(tm) == IF tm = "set" THEN "off" ELSE tm

\* The whole of Locked_StopExpired on the lists U, A with deadlines ex.
Locked_StopExpired(U, A, ex, caller, tm, stopping) ==
  LET tm0 == CancelWaitableTimer(tm) IN
  IF stopping THEN [U |-> U, A |-> A, stopped |-> <<>>, timer |-> tm0]
  ELSE LET r == SweepLoop(U, A, ex, caller) IN
       [U |-> r.U, A |-> r.A, stopped |-> r.stopped,
        timer |-> IF SetTimerFlag(U, ex, caller) THEN "set" ELSE tm0]

\* The effect of a sweep's result r on the lists, the timer, the counters and
\* the stopped workers; tu is ThreadsUnused as the caller of the sweep left it.
ApplySweep(r, tu) ==
  /\ Unused' = r.U
  /\ All' = r.A
  /\ Timer' = r.timer
  /\ stops' = CountStops(stops, r.stopped)
  /\ ThreadsStopped' = (ThreadsStopped + Len(r.stopped)) % CounterMod
  /\ ThreadsUnused' = IF r.stopped = <<>> THEN tu ELSE Len(r.U) % CounterMod
  /\ ThreadsTotal' = IF r.stopped = <<>> THEN ThreadsTotal ELSE Len(r.A) % CounterMod

\* ---- Init: the state after Pool::Pool() and the Set... calls of the configuration ----
Init ==
  /\ All = <<>> /\ Unused = <<>>
  /\ Stopping = FALSE /\ StopEvent = FALSE /\ FreeEvent = FALSE
  /\ Timer = "off" /\ Lock = NULL
  /\ MaxThreads \in 1..MaxThreadsBound
  /\ MaxUnusedThreads \in 0..MaxUnusedBound
  /\ Mode \in {"WAIT", "FAIL"}
  /\ wpc = [w \in Workers |-> "none"]
  /\ expire = [w \in Workers |-> "none"]
  /\ stops = [w \in Workers |-> 0]
  /\ pc = [c \in Callers |-> "idle"]
  /\ t = [c \in Callers |-> NULL]
  /\ result = [c \in Callers |-> "none"]
  /\ runs = 0
  /\ spc = "idle" /\ si = 1 /\ upc = "idle"
  /\ Errors = 0 /\ ThreadsTotal = 0 /\ ThreadsUnused = 0
  /\ ThreadsStopped = 0 /\ OnTimerCalls = 0
  /\ fault = FALSE

\* ---- Pool::Run ----
\* return from Run: the local t goes out of scope
Return(c, res) ==
  /\ pc' = [pc EXCEPT ![c] = "idle"]
  /\ t' = [t EXCEPT ![c] = NULL]
  /\ result' = [result EXCEPT ![c] = res]

\* the next Worker that std::make_shared would create
FreshWorker == CHOOSE w \in Workers : wpc[w] = "none" /\ \A v \in Workers : wpc[v] = "none" => w <= v

\* entry of Run up to the first evaluation of while (!Stopping), an unlocked
\* read; when it fails control reaches t->Invoke
RunBegin(c) ==
  /\ ~fault /\ pc[c] = "idle" /\ runs < MaxRuns
  /\ pc' = [pc EXCEPT ![c] = IF Stopping THEN "invoke" ELSE "pop_lock"]
  /\ t' = [t EXCEPT ![c] = NULL]
  /\ result' = [result EXCEPT ![c] = "none"]
  /\ runs' = runs + 1
  /\ UNCHANGED <<poolVars, confVars, workerVars, stopVars, counterVars, fault>>

\* while (!Stopping) after `continue`
RunLoop(c) ==
  /\ ~fault /\ pc[c] = "loop"
  /\ pc' = [pc EXCEPT ![c] = IF Stopping THEN "invoke" ELSE "pop_lock"]
  /\ UNCHANGED <<poolVars, confVars, workerVars, t, result, runs, stopVars, counterVars, fault>>

PopUnusedLock(c) ==
  /\ ~fault /\ pc[c] = "pop_lock" /\ Lock = NULL
  /\ Lock' = c
  /\ pc' = [pc EXCEPT ![c] = "pop_body"]
  /\ UNCHANGED <<All, Unused, Stopping, StopEvent, FreeEvent, Timer, confVars, workerVars,
                 t, result, runs, stopVars, counterVars, fault>>

\* a PopUnused that takes the worker that went idle last
PopUnused_Back(c) ==
  /\ ~fault /\ pc[c] = "pop_body" /\ Unused # <<>>
  /\ LET w == Unused[Len(Unused)]
         ex1 == [expire EXCEPT ![w] = "none"]
         r == Locked_StopExpired(SubSeq(Unused, 1, Len(Unused) - 1), All, ex1, NULL,
                                 Timer, Stopping)
     IN /\ t' = [t EXCEPT ![c] = w]
        /\ expire' = ex1
        /\ ApplySweep(r, (Len(Unused) - 1) % CounterMod)
        /\ wpc' = StopWorkers(wpc, Range(r.stopped))
  /\ Lock' = NULL
  /\ pc' = [pc EXCEPT ![c] = "invoke"]
  /\ UNCHANGED <<Stopping, StopEvent, FreeEvent, confVars, result, runs, stopVars,
                 Errors, OnTimerCalls, fault>>

\* PopUnused with a non-empty Unused, and Run's `break` on its result
PopUnused(c) ==
  /\ ~fault /\ pc[c] = "pop_body" /\ Unused # <<>>
  /\ LET w == Head(Unused)
         ex1 == [expire EXCEPT ![w] = "none"]
         r == Locked_StopExpired(Tail(Unused), All, ex1, NULL, Timer, Stopping)
     IN /\ t' = [t EXCEPT ![c] = w]
        /\ expire' = ex1
        /\ ApplySweep(r, Len(Tail(Unused)) % CounterMod)
        /\ wpc' = StopWorkers(wpc, Range(r.stopped))
  /\ Lock' = NULL
  /\ pc' = [pc EXCEPT ![c] = "invoke"]
  /\ UNCHANGED <<Stopping, StopEvent, FreeEvent, confVars, result, runs, stopVars,
                 Errors, OnTimerCalls, fault>>

\* PopUnused with an empty Unused returns WorkerPtr() and allCount = All.size();
\* the lock is released and Run branches on the two
PopUnusedEmpty(c) ==
  /\ ~fault /\ pc[c] = "pop_body" /\ Unused = <<>>
  /\ Lock' = NULL
  /\ UNCHANGED <<All, Unused, Stopping, StopEvent, FreeEvent, Timer, confVars, expire, stops,
                 runs, stopVars, ThreadsTotal, ThreadsUnused, ThreadsStopped, OnTimerCalls, fault>>

\* a Fail-mode refusal that forgets Errors++
RunOverflowFail_NoCount(c) ==
  /\ PopUnusedEmpty(c)
  /\ Len(All) >= MaxThreads /\ Mode = "FAIL"
  /\ Return(c, "refused")
  /\ UNCHANGED <<wpc, Errors>>

\* allSize >= MaxThreads, Mode == FAIL
RunOverflowFail(c) ==
  /\ PopUnusedEmpty(c)
  /\ Len(All) >= MaxThreads /\ Mode = "FAIL"
  /\ Errors' = Inc(Errors)
  /\ Return(c, "refused")
  /\ UNCHANGED wpc

\* allSize >= MaxThreads, Mode == WAIT: on to WaitForMultipleObjects
RunOverflowWait(c) ==
  /\ PopUnusedEmpty(c)
  /\ Len(All) >= MaxThreads /\ Mode = "WAIT"
  /\ pc' = [pc EXCEPT ![c] = "wait"]
  /\ UNCHANGED <<wpc, t, result, Errors>>

\* WaitForMultipleObjects(ev, false) returned OBJECT_0: the stop event
RunWaitStopped(c) ==
  /\ ~fault /\ pc[c] = "wait" /\ StopEvent
  /\ Return(c, "refused")
  /\ UNCHANGED <<poolVars, confVars, workerVars, runs, stopVars, counterVars, fault>>

\* ... returned OBJECT_0 + 1: the free event, which the wait resets; continue
RunWaitFree(c) ==
  /\ ~fault /\ pc[c] = "wait" /\ ~StopEvent /\ FreeEvent
  /\ FreeEvent' = FALSE
  /\ pc' = [pc EXCEPT ![c] = "loop"]
  /\ UNCHANGED <<All, Unused, Stopping, StopEvent, Timer, Lock, confVars, workerVars,
                 t, result, runs, stopVars, counterVars, fault>>

\* allSize < MaxThreads: make_shared<Worker> and a successful Start()
RunCreate(c) ==
  /\ PopUnusedEmpty(c)
  /\ Len(All) < MaxThreads
  /\ \E w \in Workers : wpc[w] = "none"
  /\ t' = [t EXCEPT ![c] = FreshWorker]
  /\ wpc' = [wpc EXCEPT ![FreshWorker] = "wait"]
  /\ pc' = [pc EXCEPT ![c] = "pushall_lock"]
  /\ UNCHANGED <<result, Errors>>

\* allSize < MaxThreads: make_shared<Worker> and a failed Start() (always
\* possible, and certain once NumWorkers threads exist); the worker is dropped
RunStartFailed(c) ==
  /\ PopUnusedEmpty(c)
  /\ Len(All) < MaxThreads
  /\ Errors' = Inc(Errors)
  /\ Return(c, "refused")
  /\ UNCHANGED wpc

PushLock(c, at, to) ==
  /\ ~fault /\ pc[c] = at /\ Lock = NULL
  /\ Lock' = c
  /\ pc' = [pc EXCEPT ![c] = to]
  /\ UNCHANGED <<All, Unused, Stopping, StopEvent, FreeEvent, Timer, confVars, workerVars,
                 t, result, runs, stopVars, counterVars, fault>>

\* Push(All, t)
PushAllLock(c) == PushLock(c, "pushall_lock", "pushall_body")

PushAll(c) ==
  /\ ~fault /\ pc[c] = "pushall_body"
  /\ All' = Append(All, t[c])
  /\ ThreadsUnused' = Len(Unused) % CounterMod
  /\ ThreadsTotal' = Len(All') % CounterMod
  /\ Lock' = NULL
  /\ pc' = [pc EXCEPT ![c] = "invoke"]
  /\ UNCHANGED <<Unused, Stopping, StopEvent, FreeEvent, Timer, confVars, workerVars,
                 t, result, runs, stopVars, Errors, ThreadsStopped, OnTimerCalls, fault>>

\* Worker::Invoke accepts the task when the worker's thread waits in its loop
\* and the worker was not stopped
CanInvoke(w) == wpc[w] = "wait" /\ stops[w] = 0

RunInvoke(c) ==
  /\ ~fault /\ pc[c] = "invoke" /\ t[c] # NULL /\ CanInvoke(t[c])
  /\ wpc' = [wpc EXCEPT ![t[c]] = "run"]
  /\ Return(c, "signal")
  /\ UNCHANGED <<poolVars, confVars, expire, stops, runs, stopVars, counterVars, fault>>

RunInvokeFailed(c) ==
  /\ ~fault /\ pc[c] = "invoke" /\ t[c] # NULL /\ ~CanInvoke(t[c])
  /\ pc' = [pc EXCEPT ![c] = "pushunused_lock"]
  /\ UNCHANGED <<poolVars, confVars, workerVars, t, result, runs, stopVars, counterVars, fault>>

\* t->Invoke on an empty WorkerPtr (the loop was never entered, or left by
\* `continue` once Stopping was set): undefined behaviour. The call traps ...
RunInvokeNullTrap(c) ==
  /\ ~fault /\ pc[c] = "invoke" /\ t[c] = NULL
  /\ fault' = TRUE
  /\ pc' = [pc EXCEPT ![c] = "fault"]
  /\ UNCHANGED <<poolVars, confVars, workerVars, t, result, runs, stopVars, counterVars>>

\* ... or runs on whatever is at address 0 and hands back some handle
RunInvokeNullReturn(c) ==
  /\ ~fault /\ pc[c] = "invoke" /\ t[c] = NULL
  /\ Return(c, "garbage")
  /\ UNCHANGED <<poolVars, confVars, workerVars, runs, stopVars, counterVars, fault>>

\* Push(Unused, t)
PushUnusedLock(c) == PushLock(c, "pushunused_lock", "pushunused_body")

PushUnused(c) ==
  /\ ~fault /\ pc[c] = "pushunused_body"
  /\ Unused' = Append(Unused, t[c])
  /\ ThreadsUnused' = Len(Unused') % CounterMod
  /\ ThreadsTotal' = Len(All) % CounterMod
  /\ Lock' = NULL
  /\ pc' = [pc EXCEPT ![c] = "errors"]
  /\ UNCHANGED <<All, Stopping, StopEvent, FreeEvent, Timer, confVars, workerVars,
                 t, result, runs, stopVars, Errors, ThreadsStopped, OnTimerCalls, fault>>

\* Errors++; return nullptr
RunInvokeFailedReturn(c) ==
  /\ ~fault /\ pc[c] = "errors"
  /\ Errors' = Inc(Errors)
  /\ Return(c, "refused")
  /\ UNCHANGED <<poolVars, confVars, workerVars, runs, stopVars,
                 ThreadsTotal, ThreadsUnused, ThreadsStopped, OnTimerCalls, fault>>

Run(c) ==
  \/ RunBegin(c) \/ RunLoop(c) \/ PopUnusedLock(c) \/ PopUnused(c)
  \/ RunOverflowFail(c) \/ RunOverflowWait(c)
  \/ RunWaitStopped(c) \/ RunWaitFree(c)
  \/ RunCreate(c) \/ RunStartFailed(c) \/ PushAllLock(c) \/ PushAll(c)
  \/ RunInvoke(c) \/ RunInvokeFailed(c) \/ RunInvokeNullTrap(c) \/ RunInvokeNullReturn(c)
  \/ PushUnusedLock(c) \/ PushUnused(c) \/ RunInvokeFailedReturn(c)

\* ---- Pool::SetStopping and Pool::Stop ----
SetStoppingLock ==
  /\ ~fault /\ spc = "idle" /\ Lock = NULL
  /\ Lock' = STOPPER
  /\ spc' = "setstop_body"
  /\ UNCHANGED <<All, Unused, Stopping, StopEvent, FreeEvent, Timer, confVars, workerVars,
                 callerVars, si, upc, counterVars, fault>>

SetStopping ==
  /\ ~fault /\ spc = "setstop_body"
  /\ Stopping' = TRUE
  /\ StopEvent' = TRUE
  /\ Lock' = NULL
  /\ spc' = "iter"
  /\ si' = 1
  /\ UNCHANGED <<All, Unused, FreeEvent, Timer, confVars, workerVars, callerVars, upc,
                 counterVars, fault>>

\* one turn of `for (auto& e : All)`, which runs without the lock
StopIterate ==
  /\ ~fault /\ spc = "iter" /\ si <= Len(All)
  /\ stops' = [stops EXCEPT ![All[si]] = @ + 1]
  /\ wpc' = StopWorkers(wpc, {All[si]})
  /\ ThreadsStopped' = Inc(ThreadsStopped)
  /\ si' = si + 1
  /\ UNCHANGED <<poolVars, confVars, expire, callerVars, spc, upc,
                 Errors, ThreadsTotal, ThreadsUnused, OnTimerCalls, fault>>

StopIterateEnd ==
  /\ ~fault /\ spc = "iter" /\ si > Len(All)
  /\ spc' = "clear_lock"
  /\ si' = 1
  /\ UNCHANGED <<poolVars, confVars, workerVars, callerVars, upc, counterVars, fault>>

StopClearLock ==
  /\ ~fault /\ spc = "clear_lock" /\ Lock = NULL
  /\ Lock' = STOPPER
  /\ spc' = "clear_body"
  /\ UNCHANGED <<All, Unused, Stopping, StopEvent, FreeEvent, Timer, confVars, workerVars,
                 callerVars, si, upc, counterVars, fault>>

StopClear ==
  /\ ~fault /\ spc = "clear_body"
  /\ Unused' = <<>>
  /\ ThreadsUnused' = 0
  /\ All' = <<>>
  /\ ThreadsTotal' = 0
  /\ Lock' = NULL
  /\ spc' = "done"
  /\ UNCHANGED <<Stopping, StopEvent, FreeEvent, Timer, confVars, workerVars, callerVars,
                 si, upc, Errors, ThreadsStopped, OnTimerCalls, fault>>

Stop ==
  \/ SetStoppingLock \/ SetStopping \/ StopIterate \/ StopIterateEnd
  \/ StopClearLock \/ StopClear

\* ---- Pool::StopUnused ----
StopUnusedLock ==
  /\ ~fault /\ upc = "idle" /\ Lock = NULL
  /\ Lock' = SHRINKER
  /\ upc' = "body"
  /\ UNCHANGED <<All, Unused, Stopping, StopEvent, FreeEvent, Timer, confVars, workerVars,
                 callerVars, spc, si, counterVars, fault>>

\* a StopUnused that leaves the deadlines as they are
ExpireNow_Skip(ex, U) == ex

\* SetExpireTimer(0) on every idle worker, then the sweep
ExpireNow(ex, U) == [w \in Workers |-> IF w \in Range(U) THEN "expired" ELSE ex[w]]

StopUnused ==
  /\ ~fault /\ upc = "body"
  /\ LET ex1 == ExpireNow(expire, Unused)
         r == Locked_StopExpired(Unused, All, ex1, NULL, Timer, Stopping)
     IN /\ expire' = ex1
        /\ ApplySweep(r, ThreadsUnused)
        /\ wpc' = StopWorkers(wpc, Range(r.stopped))
  /\ Lock' = NULL
  /\ upc' = "idle"
  /\ UNCHANGED <<Stopping, StopEvent, FreeEvent, confVars, callerVars, spc, si,
                 Errors, OnTimerCalls, fault>>

\* ---- Pool::CB_OnFree, on the thread of worker w when its task has finished ----
CB_OnFreeLock(w) ==
  /\ ~fault /\ wpc[w] = "run" /\ Lock = NULL
  /\ Lock' = w
  /\ wpc' = [wpc EXCEPT ![w] = "free_body"]
  /\ UNCHANGED <<All, Unused, Stopping, StopEvent, FreeEvent, Timer, confVars, expire, stops,
                 callerVars, stopVars, counterVars, fault>>

\* back in the worker's loop: wait again, or leave if the worker was stopped
AfterCallback(w) == IF stops[w] > 0 THEN "exit" ELSE "wait"

CB_OnFree(w) ==
  /\ ~fault /\ wpc[w] = "free_body"
  /\ IF Len(Unused) + 1 > MaxUnusedThreads
     THEN /\ expire' = [expire EXCEPT ![w] = "armed"]
          /\ Timer' = "set"
     ELSE UNCHANGED <<expire, Timer>>
  /\ Unused' = Append(Unused, w)
  /\ FreeEvent' = TRUE
  /\ Lock' = NULL
  /\ wpc' = [wpc EXCEPT ![w] = AfterCallback(w)]
  /\ UNCHANGED <<All, Stopping, StopEvent, confVars, stops, callerVars, stopVars,
                 counterVars, fault>>

\* ---- time ----
\* the deadline of worker w (MaxIdleTime after SetExpireTimer) passes
DeadlineElapses(w) ==
  /\ ~fault /\ expire[w] = "armed"
  /\ expire' = [expire EXCEPT ![w] = "expired"]
  /\ UNCHANGED <<poolVars, confVars, wpc, stops, callerVars, stopVars, counterVars, fault>>

\* the timer's due time (4 * MaxIdleTime / 3 after SET_TIMER) passes: every
\* deadline armed before the timer was set has passed as well
TimerElapses ==
  /\ ~fault /\ Timer = "set"
  /\ Timer' = "signaled"
  /\ expire' = [w \in Workers |-> IF expire[w] = "armed" THEN "expired" ELSE expire[w]]
  /\ UNCHANGED <<All, Unused, Stopping, StopEvent, FreeEvent, Lock, confVars, wpc, stops,
                 callerVars, stopVars, counterVars, fault>>

\* ---- Pool::CB_OnTimer, on the thread of a worker w that waits in its loop ----
TimerWakes(w) == Timer = "signaled" /\ wpc[w] = "wait" /\ stops[w] = 0

\* try_lock succeeded
CB_OnTimerLock(w) ==
  /\ ~fault /\ TimerWakes(w) /\ Lock = NULL
  /\ Timer' = "off"
  /\ OnTimerCalls' = IncTick(OnTimerCalls)
  /\ Lock' = w
  /\ wpc' = [wpc EXCEPT ![w] = "timer_body"]
  /\ UNCHANGED <<All, Unused, Stopping, StopEvent, FreeEvent, confVars, expire, stops,
                 callerVars, stopVars, Errors, ThreadsTotal, ThreadsUnused, ThreadsStopped, fault>>

\* a skipped tick that is not counted
CB_OnTimerSkip_NoCount(w) ==
  /\ ~fault /\ TimerWakes(w) /\ Lock # NULL
  /\ Timer' = "off"
  /\ UNCHANGED <<All, Unused, Stopping, StopEvent, FreeEvent, Lock, confVars, workerVars,
                 callerVars, stopVars, counterVars, fault>>

\* try_lock failed: the tick is skipped
CB_OnTimerSkip(w) ==
  /\ ~fault /\ TimerWakes(w) /\ Lock # NULL
  /\ Timer' = "off"
  /\ OnTimerCalls' = IncTick(OnTimerCalls)
  /\ UNCHANGED <<All, Unused, Stopping, StopEvent, FreeEvent, Lock, confVars, workerVars,
                 callerVars, stopVars, Errors, ThreadsTotal, ThreadsUnused, ThreadsStopped, fault>>

CB_OnTimer(w) ==
  /\ ~fault /\ wpc[w] = "timer_body"
  /\ LET r == Locked_StopExpired(Unused, All, expire, w, Timer, Stopping)
     IN /\ ApplySweep(r, ThreadsUnused)
        /\ wpc' = [StopWorkers(wpc, Range(r.stopped)) EXCEPT ![w] = AfterCallback(w)]
  /\ Lock' = NULL
  /\ UNCHANGED <<Stopping, StopEvent, FreeEvent, confVars, expire, callerVars, stopVars,
                 Errors, OnTimerCalls, fault>>

WorkerThread(w) ==
  \/ CB_OnFreeLock(w) \/ CB_OnFree(w) \/ DeadlineElapses(w)
  \/ CB_OnTimerLock(w) \/ CB_OnTimerSkip(w) \/ CB_OnTimer(w)

\* ---- the pool with every operation ----
Next ==
  \/ \E c \in Callers : Run(c)
  \/ Stop
  \/ StopUnusedLock \/ StopUnused
  \/ \E w \in Workers : WorkerThread(w)
  \/ TimerElapses

Spec == Init /\ [][Next]_vars

\* ---- the pool that is never stopped, under a fair scheduler ----
\* Run without the steps that only a stopping pool takes
RunNoStop(c) ==
  \/ RunBegin(c) \/ RunLoop(c) \/ PopUnusedLock(c) \/ PopUnused(c)
  \/ RunOverflowFail(c) \/ RunOverflowWait(c) \/ RunWaitFree(c)
  \/ RunCreate(c) \/ RunStartFailed(c) \/ PushAllLock(c) \/ PushAll(c)
  \/ RunInvoke(c) \/ RunInvokeFailed(c)
  \/ PushUnusedLock(c) \/ PushUnused(c) \/ RunInvokeFailedReturn(c)

\* what a caller that is inside Run does next (whether Run is called at all is
\* the caller's choice)
RunStep(c) ==
  \/ RunLoop(c) \/ PopUnusedLock(c) \/ PopUnused(c)
  \/ RunOverflowFail(c) \/ RunOverflowWait(c) \/ RunWaitFree(c)
  \/ RunCreate(c) \/ RunStartFailed(c) \/ PushAllLock(c) \/ PushAll(c)
  \/ RunInvoke(c) \/ RunInvokeFailed(c)
  \/ PushUnusedLock(c) \/ PushUnused(c) \/ RunInvokeFailedReturn(c)

NextNoStop ==
  \/ \E c \in Callers : RunNoStop(c)
  \/ StopUnusedLock \/ StopUnused
  \/ \E w \in Workers : WorkerThread(w)
  \/ TimerElapses

SpecNoStop == Init /\ [][NextNoStop]_vars

\* a step of a thread that is inside the pool, a task that finishes, or time
\* that passes: everything but a new call of Run or StopUnused
Progress ==
  \/ \E c \in Callers : RunStep(c)
  \/ StopUnused
  \/ \E w \in Workers : WorkerThread(w)
  \/ TimerElapses

\* Every thread that can take a step is scheduled, every task finishes and
\* time passes; nobody is obliged to call Run or StopUnused.
Fairness ==
  /\ \A c \in Callers : WF_vars(RunStep(c))
  /\ \A w \in Workers : WF_vars(WorkerThread(w))
  /\ WF_vars(TimerElapses)
  /\ WF_vars(StopUnused)

SpecLive == Init /\ [][NextNoStop]_vars /\ Fairness

TypeOK ==
  /\ Range(All) \subseteq Workers /\ Range(Unused) \subseteq Workers
  /\ Timer \in {"off", "set", "signaled"}
  /\ Lock \in {NULL} \cup Callers \cup Workers \cup {STOPPER, SHRINKER}
  /\ \A w \in Workers : stops[w] <= 1

NoDuplicates(s) == \A i, j \in 1..Len(s) : s[i] = s[j] => i = j

\* ---- claims ----

\* C1: a Run call that starts after Stop() has set the stopping flag returns
\* refusal at once and never reaches the step that invokes a worker.
C1_RunAfterStopNeverInvokes ==
  [][\A c \in Callers :
       (Stopping /\ pc[c] = "idle" /\ pc'[c] # "idle") => pc'[c] # "invoke"]_vars

\* C2: while the pool is not stopping, All never holds more than MaxThreads workers.
C2_AllWithinMaxThreads == ~Stopping => Len(All) <= MaxThreads

\* C3: a caller that wakes from the wait in Run around a Stop() returns refusal;
\* it never goes on to the step that invokes a worker.
C3_WokenCallerNeverInvokes ==
  [][\A c \in Callers : pc[c] = "loop" => pc'[c] # "invoke"]_vars

\* C4: a caller blocked in the wait of Run while a worker sits in Unused (or
\* All is below MaxThreads) is released under fair scheduling: in such a state
\* the free event is raised or some thread still has a step to take that can
\* lead to it, so the pool never comes to rest with that caller waiting.
C4_WaiterReleased ==
  \A c \in Callers :
    (pc[c] = "wait" /\ (Unused # <<>> \/ Len(All) < MaxThreads)) => ENABLED Progress

\* C5: in Fail mode a Run call that finds Unused empty and |All| >= MaxThreads
\* returns refusal without waiting, adds exactly one to Errors, creates no
\* worker and leaves All and Unused as they were.
C5_FailModeRefuses ==
  [][\A c \in Callers :
       (/\ pc[c] = "pop_body" /\ pc'[c] # "pop_body"
        /\ Unused = <<>> /\ Len(All) >= MaxThreads /\ Mode = "FAIL")
       => (/\ pc'[c] = "idle" /\ result'[c] = "refused"
           /\ Errors' = (Errors + 1) % CounterMod
           /\ wpc' = wpc /\ All' = All /\ Unused' = Unused
           /\ FreeEvent' = FreeEvent /\ StopEvent' = StopEvent)]_vars

\* the overflow refusal has happened: Fail mode, every worker ever created is
\* registered and busy, one caller was refused and Errors counts it
C5_Witness ==
  /\ Mode = "FAIL" /\ ~Stopping /\ spc = "idle"
  /\ Len(All) = MaxThreads /\ Unused = <<>> /\ Errors = 1
  /\ \A w \in Workers : wpc[w] = "run" /\ w \in Range(All)
  /\ \E c \in Callers : pc[c] = "idle" /\ result[c] = "refused"

\* C6: when Unused is not empty at Run's pop, Run takes the worker at the front
\* of Unused to invoke it and creates none, so All does not grow; a worker is
\* created only by a pop that found Unused empty and |All| < MaxThreads.
C6_ReuseBeforeGrowth ==
  [][/\ \A c \in Callers :
          (pc[c] = "pop_body" /\ pc'[c] # "pop_body" /\ Unused # <<>>)
          => (/\ t'[c] = Head(Unused) /\ pc'[c] = "invoke"
              /\ \A w \in Workers : wpc[w] = "none" => wpc'[w] = "none"
              /\ Len(All') <= Len(All))
     /\ (\E w \in Workers : wpc[w] = "none" /\ wpc'[w] # "none")
          => \E c \in Callers :
               /\ pc[c] = "pop_body" /\ pc'[c] # "pop_body"
               /\ Unused = <<>> /\ Len(All) < MaxThreads]_vars

\* the reuse has happened: the only worker ever created went idle (the free
\* event was raised) and a caller now holds it, popped from Unused, to invoke it
C6_Witness ==
  /\ ~Stopping /\ spc = "idle" /\ FreeEvent
  /\ All = <<1>> /\ Unused = <<>>
  /\ \A w \in Workers : w # 1 => wpc[w] = "none"
  /\ \E c \in Callers : pc[c] = "invoke" /\ t[c] = 1

\* C7: whenever no thread holds the mutex, every worker of Unused is in All and
\* neither list holds a worker twice.
C7_UnusedWithinAll ==
  Lock = NULL => /\ Range(Unused) \subseteq Range(All)
                 /\ NoDuplicates(All) /\ NoDuplicates(Unused)

\* C8: an idle worker with an expiry deadline that is not reused is eventually
\* removed from Unused and All, with no further Run call or idle callback.
C8_ExpiredWorkerRemoved ==
  \A w \in Workers :
    (w \in Range(Unused) /\ expire[w] # "none")
      ~> (w \notin Range(Unused) \/ w \notin Range(All))

\* C9: once Stop() has returned, All and Unused are empty and stay empty.
C9_EmptyAfterStop == spc = "done" => (All = <<>> /\ Unused = <<>>)

\* C10: StopUnused() on a pool that is not stopping stops and removes from
\* Unused and All every worker that was idle, leaves Unused empty, and leaves
\* every busy worker (in All, not in Unused) in All and not stopped.
C10_StopUnusedRemovesIdle ==
  [][(upc = "body" /\ upc' # "body" /\ ~Stopping)
     => (/\ Unused' = <<>>
         /\ \A w \in Range(Unused) :
              w \notin Range(All') /\ stops'[w] = stops[w] + 1
         /\ \A w \in Range(All) \ Range(Unused) :
              /\ w \in Range(All') /\ stops'[w] = stops[w] /\ wpc'[w] = wpc[w]
         /\ Len(All') = Len(All) - Len(Unused))]_vars

\* StopUnused has acted with one worker idle and one busy: after two Run calls
\* and no timer tick, one worker is stopped and gone while the other still
\* runs its task in All (with MaxUnusedThreads = 1 the first idle worker gets
\* no deadline, so no sweep but StopUnused's removes it)
C10_Witness ==
  /\ ~Stopping /\ spc = "idle" /\ upc = "idle" /\ MaxUnusedThreads = 1
  /\ runs = 2 /\ OnTimerCalls = 0 /\ Unused = <<>>
  /\ \E w, v \in Workers :
       /\ stops[w] = 1 /\ w \notin Range(All)
       /\ wpc[v] = "run" /\ All = <<v>> /\ stops[v] = 0

\* worker w has been registered in All by Push(All, t): it was created, and the
\* Run call that created it is past its Push
Registered(w) ==
  /\ wpc[w] # "none"
  /\ ~\E c \in Callers : t[c] = w /\ pc[c] \in {"pushall_lock", "pushall_body"}

\* C11: Stop() is called at most once on each worker, and when Stop() of the
\* pool completes every worker registered in All has been stopped exactly once.
C11_StoppedExactlyOnce ==
  [][/\ \A w \in Workers : stops'[w] <= 1
     /\ (spc # "done" /\ spc' = "done")
          => \A w \in Workers : Registered(w) => stops'[w] = 1]_vars

\* C12: the sweep of worker w's own timer callback neither stops nor removes w;
\* if w was idle and expired the timer is armed when the sweep ends, and every
\* other expired idle worker is stopped and removed from Unused and All.
C12_SelfExcluded ==
  [][\A w \in Workers :
       (wpc[w] = "timer_body" /\ wpc'[w] # "timer_body")
       => (/\ stops'[w] = stops[w]
           /\ w \in Range(Unused) => w \in Range(Unused')
           /\ w \in Range(All) => w \in Range(All')
           /\ (~Stopping /\ w \in Range(Unused) /\ expire[w] = "expired")
                => Timer' = "set"
           /\ ~Stopping
                => \A v \in Range(Unused) \ {w} :
                     expire[v] = "expired"
                       => /\ v \notin Range(Unused') /\ v \notin Range(All')
                          /\ stops'[v] = stops[v] + 1)]_vars

\* the sweep of w's own tick has acted: w, idle and expired, is still in Unused
\* and All and not stopped, the timer is armed again, and the other worker,
\* expired as well, was stopped and removed
C12_Witness ==
  /\ ~Stopping /\ spc = "idle" /\ upc = "idle" /\ Lock = NULL /\ OnTimerCalls = 1
  /\ \E w, v \in Workers :
       /\ w # v /\ Unused = <<w>> /\ All = <<w>>
       /\ expire[w] = "expired" /\ stops[w] = 0 /\ wpc[w] = "wait"
       /\ Timer = "set"
       /\ expire[v] = "expired" /\ stops[v] = 1

\* a sweep erases worker w: it leaves Unused in a step that stops it
Erased(w) ==
  w \in Range(Unused) /\ w \notin Range(Unused') /\ stops'[w] = stops[w] + 1

\* the holders of worker w's shared reference besides the sweep's local e:
\* the entries of All and Unused and the locals t of Run calls
UseCount(w) ==
  Cardinality({i \in 1..Len(All) : All[i] = w})
  + Cardinality({i \in 1..Len(Unused) : Unused[i] = w})
  + Cardinality({c \in Callers : t[c] = w})

\* C13: when a sweep erases a worker, All and Unused are the only holders of its
\* shared reference besides the sweep itself; no Run call holds it.
C13_NoStrayHolder ==
  [][\A w \in Workers : Erased(w) => UseCount(w) = 2]_vars

\* C14: when Stop() reaches the check before it clears the lists, All and
\* Unused hold the same number of workers.
C14_StopSeesAllIdle == spc = "clear_body" => Len(All) = Len(Unused)

\* C15: a worker whose invoke failed is put back in Unused, stays in All, and
\* the refused Run call leaves it obtainable, also for a caller that is already
\* blocked in the wait: with a refused call behind it, an invocable worker at
\* the front of Unused and a caller in the wait, the free event is raised or
\* some thread inside the pool still has a step to take.
C15_SalvagedWorkerObtainable ==
  \A c \in Callers :
    (/\ pc[c] = "wait"
     /\ \E d \in Callers : pc[d] = "idle" /\ result[d] = "refused"
     /\ Unused # <<>> /\ Range(Unused) \subseteq Range(All)
     /\ \A w \in Range(Unused) : CanInvoke(w))
    => (FreeEvent \/ ENABLED Progress)

\* C16: a timer tick counts itself in OnTimerCalls, by exactly one, whether or
\* not it got the mutex; a tick that finds the mutex held does not wait for it
\* and changes neither the lists nor any worker nor any other counter.
C16_SkippedTickChangesNothing ==
  [][(Timer = "signaled" /\ Timer' = "off")
     => (/\ OnTimerCalls' = (OnTimerCalls + 1) % TickMod
         /\ Lock # NULL
              => /\ Lock' = Lock /\ All' = All /\ Unused' = Unused
                 /\ wpc' = wpc /\ stops' = stops /\ expire' = expire
                 /\ ThreadsStopped' = ThreadsStopped
                 /\ ThreadsTotal' = ThreadsTotal /\ ThreadsUnused' = ThreadsUnused)]_vars

\* a tick was skipped: a caller holds the mutex at its pop, the one tick so far
\* has been counted and has consumed the timer, and the expired idle worker it
\* would have met is still in Unused, not stopped
C16_Witness ==
  /\ spc = "idle" /\ upc = "idle" /\ OnTimerCalls = 1 /\ Timer = "off"
  /\ \E c \in Callers : Lock = c /\ pc[c] = "pop_body"
  /\ \A w \in Workers : stops[w] = 0 /\ wpc[w] # "timer_body"
  /\ \E w \in Range(Unused) : expire[w] = "expired" /\ wpc[w] = "wait"

\* the idle workers a sweep over In leaves: those not expired, and the caller
Survivors(In, ex, caller) == SelectSeq(In, LAMBDA x : ex[x] # "expired" \/ x = caller)

\* what a finished sweep over In, on behalf of caller, has done
SweepDone(In, caller) ==
  /\ Unused' = Survivors(In, expire', caller)
  /\ All' = SelectSeq(All, LAMBDA x : x \notin Range(In) \/ x \in Range(Unused'))
  /\ \A x \in Range(In) \ Range(Unused') : stops'[x] = stops[x] + 1

\* C17: a sweep on a pool that is not stopping ends with no expired worker in
\* Unused but the excluded caller; the workers it removed are gone from All as
\* well, and the other idle workers keep their places and their order.
C17_SweepRemovesExpired ==
  [][~Stopping =>
       /\ \A c \in Callers :
            (pc[c] = "pop_body" /\ pc'[c] # "pop_body" /\ Unused # <<>>)
              => SweepDone(Tail(Unused), NULL)
       /\ (upc = "body" /\ upc' # "body") => SweepDone(Unused, NULL)
       /\ \A w \in Workers :
            (wpc[w] = "timer_body" /\ wpc'[w] # "timer_body") => SweepDone(Unused, w)]_vars

\* an admission-time sweep has acted: with MaxUnusedThreads = 1 a caller holds
\* the worker it popped, which had no deadline, and the worker behind it, whose
\* deadline had passed, is stopped and gone from Unused and All
C17_Witness ==
  /\ ~Stopping /\ spc = "idle" /\ upc = "idle" /\ MaxUnusedThreads = 1 /\ OnTimerCalls = 0
  /\ \E c \in Callers : \E w, v \in Workers :
       /\ w # v /\ pc[c] = "invoke" /\ t[c] = w /\ expire[w] = "none" /\ stops[w] = 0
       /\ All = <<w>> /\ Unused = <<>>
       /\ expire[v] = "expired" /\ stops[v] = 1

\* C18: a Run call that returns refusal has added exactly one to Errors, and a
\* Run call that returns a completion signal leaves Errors as it was.
C18_RefusalCounted ==
  [][\A c \in Callers :
       (pc[c] # "idle" /\ pc'[c] = "idle")
       => /\ result'[c] = "refused" => Errors' = (Errors + 1) % CounterMod
          /\ result'[c] = "signal" => Errors' = Errors]_vars

\* C19: whenever no thread holds the mutex, ThreadsUnused is the length of
\* Unused and ThreadsTotal is the length of All.
C19_CountersMatchLists ==
  Lock = NULL => /\ ThreadsUnused = Len(Unused) % CounterMod
                 /\ ThreadsTotal = Len(All) % CounterMod

\* C20: on a pool that is not stopping a live worker has a deadline only while
\* it is in Unused and Unused is longer than MaxUnusedThreads; and a sweep at
\* admission or on a timer tick that starts with at least MaxUnusedThreads
\* idle workers ends with at least that many.
C20_DeadlineOnlyOverCapacity ==
  [][/\ ~Stopping'
          => \A w \in Workers :
               (expire'[w] # "none" /\ stops'[w] = 0)
                 => (w \in Range(Unused') /\ Len(Unused') > MaxUnusedThreads)
     /\ ~Stopping
          => /\ \A c \in Callers :
                  (/\ pc[c] = "pop_body" /\ pc'[c] # "pop_body"
                   /\ Len(Unused) - 1 >= MaxUnusedThreads)
                    => Len(Unused') >= MaxUnusedThreads
             /\ \A w \in Workers :
                  (/\ wpc[w] = "timer_body" /\ wpc'[w] # "timer_body"
                   /\ Len(Unused) >= MaxUnusedThreads)
                    => Len(Unused') >= MaxUnusedThreads]_vars

====
